---- MODULE Spec2Model ----
(***************************************************************************)
(* udpmask: the session table (um_sockmap), the idle reaper                *)
(* (um_sockmap_clean), the select() loop of start() and the signal         *)
(* handler of src/udpmask.c, as one state machine.  The loop is a single   *)
(* thread whose position is pc; signal delivery, datagram arrival and the  *)
(* passing of time are the environment's actions.                          *)
(***************************************************************************)
EXTENDS Integers, FiniteSets, Sequences, TLC

(* ------------------------------------------------------------------ *)
(* Bounds of the model                                                 *)
(* ------------------------------------------------------------------ *)
UM_MAX_CLIENT == 2      \* table capacity, ARRAY_SIZE(map)
MaxTime == 2            \* the clock runs over 0..MaxTime
MaxTimeout == 1         \* -t values 0..MaxTimeout
MaxSpareFd == 1         \* handles beyond the listening socket and one per slot
MaxPayload == 0         \* payloads are 0..MaxPayload

(* ------------------------------------------------------------------ *)
(* Program constants                                                   *)
(* ------------------------------------------------------------------ *)
TIME_INVALID == -1      \* (time_t) -1: what time() returns on failure, and the sentinel
AF_INET == 2
bind_sock == 1          \* the listening socket main() created before start()

Slots == 0 .. (UM_MAX_CLIENT - 1)
Fds == 0 .. (UM_MAX_CLIENT + MaxSpareFd)
Payloads == 0 .. MaxPayload
Modes == {"client", "server"}

ZeroAddr == [fam |-> 0, port |-> 0, addr |-> 0]
\* client addresses: one more than there are slots; some differ in the port
\* alone, some in the host alone
Clients == {[fam |-> AF_INET, port |-> 1 + (k % 2), addr |-> 1 + (k \div 2)] :
               k \in 0 .. UM_MAX_CLIENT}

ZeroSlot == [in_use |-> 0, sock |-> 0, last_use |-> 0, from |-> ZeroAddr]

VARIABLES
    \* the program's state
    map,                \* struct um_sockmap map[UM_MAX_CLIENT]
    sock_fd_max,
    timeout,            \* set once by main() from -t
    signal_term,
    \* locals of start() that live from one step of the loop to the next
    mode,
    active_fd_set,
    read_fd_set,        \* what select() left of it, until the drain loop has read it
    clean_up_trigged,
    pc,
    \* the environment
    openFds,            \* handles the process holds open
    conn,               \* handles connected to the remote (connect() was called)
    now,                \* the clock
    intr,               \* a signal was delivered while select() was blocked
    \* observation
    ev,                 \* what the loop's step just taken did, in order
    idle,               \* slots idle longer than timeout when select() returned, untouched since
    refreshed,          \* such slots touched since
    lastTv              \* SpecTable: what the last reaper call read, while no insert or touch followed

progVars == <<map, sock_fd_max, timeout, signal_term>>
localVars == <<mode, active_fd_set, read_fd_set, clean_up_trigged, pc>>
envVars == <<openFds, conn, now, intr>>
obsVars == <<ev, idle, refreshed, lastTv>>
vars == <<progVars, localVars, envVars, obsVars>>

\* values below every clock reading, (time_t) -1 included
NoRead == TIME_INVALID - 1     \* a reaper run that read no clock (timeout <= 0)
Busy == TIME_INVALID - 2       \* lastTv: no reaper call yet, or an insert or a touch since

Ev(op, fd, slot, addr, data, orig) ==
    [op |-> op, fd |-> fd, slot |-> slot, addr |-> addr, data |-> data, orig |-> orig]

(* ------------------------------------------------------------------ *)
(* Pure helpers                                                        *)
(* ------------------------------------------------------------------ *)
SetMax(S) == CHOOSE x \in S : \A y \in S : y <= x
SetMin(S) == CHOOSE x \in S : \A y \in S : x <= y

\* transform(): one mode undoes the other
transform(m, p) == IF m = "client" THEN p + 1 ELSE p - 1

Complement(m) == IF m = "client" THEN "server" ELSE "client"

\* s_addr is unsigned and its difference wraps around; the model keeps the
\* wrap-around with addresses of 16 bits, which its integers can hold
AddrMod == 65536

\* conversion of the long holding the unsigned difference to int
ToInt(x) == IF x % AddrMod >= AddrMod \div 2 THEN (x % AddrMod) - AddrMod
            ELSE x % AddrMod

\* a comparison that leaves the address out: family and port only
sockaddr_in_cmp_port(a, b) ==
    IF a.fam - b.fam # 0 THEN a.fam - b.fam ELSE a.port - b.port

sockaddr_in_cmp(a, b) ==
    LET af_cmp == a.fam - b.fam
        port_cmp == a.port - b.port
        in_addr_cmp == (a.addr - b.addr) % AddrMod
    IN  IF af_cmp # 0 THEN af_cmp
        ELSE IF port_cmp # 0 THEN port_cmp
        ELSE IF in_addr_cmp # 0 THEN ToInt(in_addr_cmp)
        ELSE 0

\* a lookup loop that starts at slot 1
LookupFromOne(m, a) ==
    LET hits == {i \in Slots : i >= 1 /\ m[i].in_use = 1 /\ a = m[i].from}
    IN  IF hits = {} THEN -1 ELSE SetMin(hits)

\* the lookup loop of start(): first in-use slot whose address compares equal
Lookup(m, a) ==
    LET hits == {i \in Slots : m[i].in_use = 1 /\ sockaddr_in_cmp(a, m[i].from) = 0}
    IN  IF hits = {} THEN -1 ELSE SetMin(hits)

update_sock_fd_max(m) ==
    SetMax({bind_sock} \cup {m[i].sock : i \in {j \in Slots : m[j].in_use = 1}})

UPDATE_SOCK_FD_MAX_ADD(sock, max) == IF sock > max THEN sock ELSE max

\* a removal that recomputes only when the handle is above the maximum
UPDATE_SOCK_FD_MAX_RM_above(sock, max, m) ==
    IF sock > max THEN update_sock_fd_max(m) ELSE max

UPDATE_SOCK_FD_MAX_RM(sock, max, m) == IF sock >= max THEN update_sock_fd_max(m) ELSE max

\* UPDATE_LAST_USE(idx) with time() returning tv
UPDATE_LAST_USE(m, idx, tv) ==
    IF tv # TIME_INVALID THEN [m EXCEPT ![idx].last_use = tv] ELSE m

\* an insertion that scans from the last slot down
InsIndexLast(m) ==
    LET free == {i \in Slots : m[i].in_use = 0}
    IN  IF free = {} THEN -1 ELSE SetMax(free)

\* um_sockmap_ins: the index of the slot taken, or -1
InsIndex(m) ==
    LET free == {i \in Slots : m[i].in_use = 0}
    IN  IF free = {} THEN -1 ELSE SetMin(free)

\* an insertion that leaves last_use as the slot's last session left it
um_sockmap_ins_keep(m, sock, addr) ==
    LET i == InsIndex(m)
    IN  IF i < 0 THEN m
        ELSE [m EXCEPT ![i] = [in_use |-> 1, sock |-> sock,
                                last_use |-> m[i].last_use, from |-> addr]]

um_sockmap_ins(m, sock, addr) ==
    LET i == InsIndex(m)
    IN  IF i < 0 THEN m
        ELSE [m EXCEPT ![i] = [in_use |-> 1, sock |-> sock,
                                last_use |-> TIME_INVALID, from |-> addr]]

\* a staleness test without the sentinel
StaleByAge(s, tv, to) ==
    s.in_use = 1 /\ s.last_use # TIME_INVALID /\ tv - s.last_use >= to

\* a staleness test with > where the reaper has >=
StaleStrict(s, tv, to) ==
    s.in_use = 1 /\ (s.last_use = TIME_INVALID \/ tv - s.last_use > to)

\* the test of lines 116-117
Stale(s, tv, to) ==
    s.in_use = 1 /\ (s.last_use = TIME_INVALID \/ tv - s.last_use >= to)

\* a reaper loop that closes the socket and leaves in_use set
RECURSIVE CleanFromKeep(_, _, _, _)
CleanFromKeep(i, st, tv, to) ==
    IF i >= UM_MAX_CLIENT THEN st
    ELSE IF Stale(st.map[i], tv, to)
    THEN LET fd == st.map[i].sock
         IN  CleanFromKeep(i + 1,
                 [st EXCEPT !.open = st.open \ {fd},
                            !.conn = st.conn \ {fd},
                            !.act = st.act \ {fd},
                            !.evs = Append(st.evs,
                                       Ev("close", fd, i, st.map[i].from,
                                          IF fd \in st.open THEN 1 ELSE 0,
                                          st.map[i].last_use)),
                            !.purged = 1],
                 tv, to)
    ELSE CleanFromKeep(i + 1, st, tv, to)

\* um_sockmap_clean from slot i on; st carries everything the loop body writes
RECURSIVE CleanFrom(_, _, _, _)
CleanFrom(i, st, tv, to) ==
    IF i >= UM_MAX_CLIENT THEN st
    ELSE IF Stale(st.map[i], tv, to)
    THEN LET m1 == [st.map EXCEPT ![i].in_use = 0]
             fd == st.map[i].sock
         IN  CleanFrom(i + 1,
                 [st EXCEPT !.map = m1,
                            !.open = st.open \ {fd},
                            !.conn = st.conn \ {fd},
                            !.act = st.act \ {fd},
                            !.max = UPDATE_SOCK_FD_MAX_RM(fd, st.max, m1),
                            !.evs = Append(st.evs,
                                       Ev("close", fd, i, st.map[i].from,
                                          IF fd \in st.open THEN 1 ELSE 0,
                                          st.map[i].last_use)),
                            !.purged = 1],
                 tv, to)
    ELSE CleanFrom(i + 1, st, tv, to)

\* a reaper that is off for negative timeouts only
um_sockmap_clean_neg(st, tv, to) ==
    LET s0 == [st EXCEPT !.purged = 0,
                         !.evs = Append(st.evs, Ev("reap", -1, -1, ZeroAddr, tv, 0))]
    IN  IF to < 0 THEN s0 ELSE CleanFrom(0, s0, tv, to)

um_sockmap_clean(st, tv, to) ==
    LET s0 == [st EXCEPT !.purged = 0,
                         !.evs = Append(st.evs, Ev("reap", -1, -1, ZeroAddr, tv, 0))]
    IN  IF to <= 0 THEN s0 ELSE CleanFrom(0, s0, tv, to)

\* what one step of the loop works on: the table, the handles the process
\* holds, active_fd_set, sock_fd_max, clean_up_trigged, sock_idx, and the
\* record of what the step did; rd is read_fd_set
LoopState ==
    [map |-> map, open |-> openFds, conn |-> conn, act |-> active_fd_set,
     max |-> sock_fd_max, trig |-> clean_up_trigged, idx |-> -1,
     evs |-> << >>, purged |-> 0, rd |-> read_fd_set]

\* what time(NULL) can return
TimeReads == {now, TIME_INVALID}

\* what NEW_SOCK() can return: the lowest handle that is not open, or -1
NewSocks(open) ==
    (IF Fds \ open = {} THEN {} ELSE {SetMin(Fds \ open)}) \cup {-1}

(* ------------------------------------------------------------------ *)
(* Initial state: entry to the while loop of start()                   *)
(* ------------------------------------------------------------------ *)
Init ==
    /\ map = [i \in Slots |-> ZeroSlot]
    /\ sock_fd_max = update_sock_fd_max([i \in Slots |-> ZeroSlot])
    /\ timeout \in 0 .. MaxTimeout
    /\ signal_term = 0
    /\ mode \in Modes
    /\ active_fd_set = {bind_sock}
    /\ read_fd_set = {}
    /\ clean_up_trigged = 0
    /\ pc = "check"
    /\ openFds = {bind_sock}
    /\ conn = {}
    /\ now = 0
    /\ intr = FALSE
    /\ ev = << >>
    /\ idle = {}
    /\ refreshed = {}
    /\ lastTv = Busy

(* ------------------------------------------------------------------ *)
(* Observation: the slots that were idle when select() returned        *)
(* ------------------------------------------------------------------ *)
ObsEvent(o, e) ==
    IF e.op = "close"
    THEN [idle |-> o.idle \ {e.slot}, refreshed |-> o.refreshed \ {e.slot}]
    ELSE IF e.op = "touch" /\ e.data # TIME_INVALID
    THEN [idle |-> o.idle \ {e.slot},
          refreshed |-> IF e.slot \in o.idle THEN o.refreshed \cup {e.slot}
                        ELSE o.refreshed]
    ELSE o

RECURSIVE ObsFold(_, _, _)
ObsFold(k, evs, o) ==
    IF k > Len(evs) THEN o ELSE ObsFold(k + 1, evs, ObsEvent(o, evs[k]))

\* the step ends in state st; o is the observation it started from
Apply(st, o) ==
    /\ map' = st.map
    /\ openFds' = st.open
    /\ conn' = st.conn
    /\ active_fd_set' = st.act
    /\ sock_fd_max' = st.max
    /\ clean_up_trigged' = st.trig
    /\ ev' = st.evs
    /\ idle' = ObsFold(1, st.evs, o).idle
    /\ refreshed' = ObsFold(1, st.evs, o).refreshed

(* ------------------------------------------------------------------ *)
(* The steps of the loop of start()                                    *)
(* ------------------------------------------------------------------ *)
\* UPDATE_LAST_USE(idx) as the loop calls it
Touch(st, idx, tv) ==
    [st EXCEPT !.map = UPDATE_LAST_USE(st.map, idx, tv),
               !.evs = Append(st.evs, Ev("touch", st.map[idx].sock, idx,
                                         st.map[idx].from, tv, st.map[idx].last_use))]

\* a new-connection step that runs the reaper before it makes the socket, so
\* that NEW_SOCK() can hand out a handle the reaper has just closed
NewConnReapFirst(st, addr, fd, tvc) ==
    IF fd < 0
    THEN [st EXCEPT !.idx = -1,
                    !.evs = Append(st.evs, Ev("socket", fd, -1, addr, 0, 0))]
    ELSE LET s0 == um_sockmap_clean(st, tvc, timeout)
             fd2 == SetMin(Fds \ s0.open)
             s2 == [s0 EXCEPT !.open = s0.open \cup {fd2},
                              !.evs = Append(s0.evs, Ev("socket", fd2, -1, addr, 0, 0))]
             idx == InsIndex(s2.map)
             m2 == um_sockmap_ins(s2.map, fd2, addr)
         IN  IF idx >= 0
             THEN [s2 EXCEPT !.map = m2,
                             !.act = s2.act \cup {fd2},
                             !.conn = s2.conn \cup {fd2},
                             !.max = UPDATE_SOCK_FD_MAX_ADD(fd2, s2.max),
                             !.trig = 1,
                             !.idx = idx,
                             !.evs = Append(s2.evs,
                                        Ev("ins", fd2, idx, addr, m2[idx].last_use, 0))]
             ELSE [s2 EXCEPT !.trig = 1,
                             !.idx = -1,
                             !.evs = Append(s2.evs, Ev("drop", fd2, -1, addr, 0, 0))]

\* a new-connection step that does not set clean_up_trigged
NewConnNoFlag(st, addr, fd, tvc) ==
    IF fd < 0
    THEN [st EXCEPT !.idx = -1,
                    !.evs = Append(st.evs, Ev("socket", fd, -1, addr, 0, 0))]
    ELSE LET s1 == [st EXCEPT !.open = st.open \cup {fd},
                              !.evs = Append(st.evs, Ev("socket", fd, -1, addr, 0, 0))]
             s2 == um_sockmap_clean(s1, tvc, timeout)
             idx == InsIndex(s2.map)
             m2 == um_sockmap_ins(s2.map, fd, addr)
         IN  IF idx >= 0
             THEN [s2 EXCEPT !.map = m2,
                             !.act = s2.act \cup {fd},
                             !.conn = s2.conn \cup {fd},
                             !.max = UPDATE_SOCK_FD_MAX_ADD(fd, s2.max),
                             !.idx = idx,
                             !.evs = Append(s2.evs,
                                        Ev("ins", fd, idx, addr, m2[idx].last_use, 0))]
             ELSE [s2 EXCEPT !.idx = -1,
                             !.evs = Append(s2.evs, Ev("drop", fd, -1, addr, 0, 0))]

\* a new-connection step that watches the new socket before it looks at what
\* the insertion returned
NewConnWatch(st, addr, fd, tvc) ==
    IF fd < 0
    THEN [st EXCEPT !.idx = -1,
                    !.evs = Append(st.evs, Ev("socket", fd, -1, addr, 0, 0))]
    ELSE LET s1 == [st EXCEPT !.open = st.open \cup {fd},
                              !.evs = Append(st.evs, Ev("socket", fd, -1, addr, 0, 0))]
             s2 == um_sockmap_clean(s1, tvc, timeout)
             idx == InsIndex(s2.map)
             m2 == um_sockmap_ins(s2.map, fd, addr)
         IN  [s2 EXCEPT !.map = m2,
                        !.act = s2.act \cup {fd},
                        !.conn = IF idx >= 0 THEN s2.conn \cup {fd} ELSE s2.conn,
                        !.max = UPDATE_SOCK_FD_MAX_ADD(fd, s2.max),
                        !.trig = 1,
                        !.idx = idx,
                        !.evs = Append(s2.evs,
                                   IF idx >= 0
                                   THEN Ev("ins", fd, idx, addr, m2[idx].last_use, 0)
                                   ELSE Ev("drop", fd, -1, addr, 0, 0))]

\* lines 222-248: a new client address; NEW_SOCK() gave fd, the reaper read tvc
NewConn(st, addr, fd, tvc) ==
    IF fd < 0
    THEN [st EXCEPT !.idx = -1,
                    !.evs = Append(st.evs, Ev("socket", fd, -1, addr, 0, 0))]
    ELSE LET s1 == [st EXCEPT !.open = st.open \cup {fd},
                              !.evs = Append(st.evs, Ev("socket", fd, -1, addr, 0, 0))]
             s2 == um_sockmap_clean(s1, tvc, timeout)
             idx == InsIndex(s2.map)
             m2 == um_sockmap_ins(s2.map, fd, addr)
         IN  IF idx >= 0
             THEN [s2 EXCEPT !.map = m2,
                             !.act = s2.act \cup {fd},
                             !.conn = s2.conn \cup {fd},
                             !.max = UPDATE_SOCK_FD_MAX_ADD(fd, s2.max),
                             !.trig = 1,
                             !.idx = idx,
                             !.evs = Append(s2.evs,
                                        Ev("ins", fd, idx, addr, m2[idx].last_use, 0))]
             ELSE [s2 EXCEPT !.trig = 1,
                             !.idx = -1,
                             !.evs = Append(s2.evs, Ev("drop", fd, -1, addr, 0, 0))]

\* a forwarding step without UPDATE_LAST_USE
ForwardNoTouch(st, addr, data, m, tvt) ==
    IF st.idx >= 0
    THEN [st EXCEPT !.evs = Append(st.evs,
                        Ev("send", st.map[st.idx].sock, st.idx, addr,
                           transform(m, data), data))]
    ELSE st

\* a forwarding step that sends the datagram as it came
ForwardPlain(st, addr, data, m, tvt) ==
    IF st.idx >= 0
    THEN Touch([st EXCEPT !.evs = Append(st.evs,
                              Ev("send", st.map[st.idx].sock, st.idx, addr,
                                 data, data))],
               st.idx, tvt)
    ELSE st

\* lines 252-257: transform, send on the session's socket, UPDATE_LAST_USE
Forward(st, addr, data, m, tvt) ==
    IF st.idx >= 0
    THEN Touch([st EXCEPT !.evs = Append(st.evs,
                              Ev("send", st.map[st.idx].sock, st.idx, addr,
                                 transform(m, data), data))],
               st.idx, tvt)
    ELSE st

\* lines 204-259: the step for the listening socket; recvfrom() gave r
ListenStep(st, r, fd, tvc, tvt) ==
    IF bind_sock \notin st.rd THEN st
    ELSE IF ~r.ok
    THEN [st EXCEPT !.evs = Append(st.evs, Ev("recvfrom", bind_sock, -1, ZeroAddr, -1, -1))]
    ELSE LET hit == Lookup(st.map, r.addr)
             s1 == [st EXCEPT !.idx = hit,
                              !.evs = Append(st.evs,
                                         Ev("recvfrom", bind_sock, hit, r.addr,
                                            r.data, r.data))]
             s2 == IF hit < 0 THEN NewConn(s1, r.addr, fd, tvc) ELSE s1
         IN  Forward(s2, r.addr, r.data, mode, tvt)

\* a turn of the drain loop that reads the socket until it has a datagram
DrainStepAgain(st, i, r, m, tv) ==
    IF ~(st.map[i].in_use = 1 /\ st.map[i].sock \in st.rd) THEN st
    ELSE LET s0 == [st EXCEPT !.evs = Append(st.evs,
                                  Ev("recv", st.map[i].sock, i, st.map[i].from, -1, -1))]
             s1 == Touch([s0 EXCEPT !.evs = Append(s0.evs,
                                      Ev("recv", s0.map[i].sock, i, s0.map[i].from,
                                         r.data, r.data))],
                         i, tv)
         IN  [s1 EXCEPT !.evs = Append(s1.evs,
                                   Ev("sendto", bind_sock, i, s1.map[i].from,
                                      transform(m, r.data), r.data))]

\* lines 262-275: one turn of the drain loop, for slot i; recv() gave r
DrainStep(st, i, r, m, tv) ==
    IF ~(st.map[i].in_use = 1 /\ st.map[i].sock \in st.rd) THEN st
    ELSE IF ~r.ok
    THEN [st EXCEPT !.evs = Append(st.evs,
                               Ev("recv", st.map[i].sock, i, st.map[i].from, -1, -1))]
    ELSE LET s1 == Touch([st EXCEPT !.evs = Append(st.evs,
                                      Ev("recv", st.map[i].sock, i, st.map[i].from,
                                         r.data, r.data))],
                         i, tv)
         IN  [s1 EXCEPT !.evs = Append(s1.evs,
                                   Ev("sendto", bind_sock, i, s1.map[i].from,
                                      transform(m, r.data), r.data))]

\* lines 284-289: close every session still in use
RECURSIVE CloseAllFrom(_, _)
CloseAllFrom(i, st) ==
    IF i >= UM_MAX_CLIENT THEN st
    ELSE IF st.map[i].in_use = 1
    THEN LET fd == st.map[i].sock
         IN  CloseAllFrom(i + 1,
                 [st EXCEPT !.map = [st.map EXCEPT ![i].in_use = 0],
                            !.open = st.open \ {fd},
                            !.conn = st.conn \ {fd},
                            !.evs = Append(st.evs,
                                       Ev("close", fd, i, st.map[i].from,
                                          IF fd \in st.open THEN 1 ELSE 0,
                                          st.map[i].last_use))])
    ELSE CloseAllFrom(i + 1, st)

(* ------------------------------------------------------------------ *)
(* What the system calls of one iteration can return                   *)
(* ------------------------------------------------------------------ *)
\* recvfrom() on the listening socket: ret <= 0, or a datagram
NoDatagram == [ok |-> FALSE, addr |-> ZeroAddr, data |-> 0]
RecvFromResults ==
    {NoDatagram} \cup {[ok |-> TRUE, addr |-> a, data |-> p] : a \in Clients, p \in Payloads}

\* recv() on a session socket
RecvResults ==
    {[ok |-> FALSE, data |-> 0]} \cup {[ok |-> TRUE, data |-> p] : p \in Payloads}

\* the clock values a reaper run can read: none when timeout <= 0
ReapReads == IF timeout <= 0 THEN {NoRead} ELSE TimeReads

\* the states the listening-socket step can end in, over all that recvfrom(),
\* NEW_SOCK() and time() can return where the step calls them
ListenOutcomes(st) ==
    IF bind_sock \notin st.rd THEN {ListenStep(st, NoDatagram, -1, NoRead, TIME_INVALID)}
    ELSE UNION {
        IF ~r.ok THEN {ListenStep(st, r, -1, NoRead, TIME_INVALID)}
        ELSE IF Lookup(st.map, r.addr) >= 0
        THEN {ListenStep(st, r, -1, NoRead, tvt) : tvt \in TimeReads}
        ELSE {ListenStep(st, r, x[1], x[2], x[3]) :
                 x \in NewSocks(st.open) \X ReapReads \X TimeReads}
        : r \in RecvFromResults}

\* the states the drain loop can end in from slot i on
RECURSIVE DrainOutcomes(_, _)
DrainOutcomes(i, S) ==
    IF i >= UM_MAX_CLIENT THEN S
    ELSE DrainOutcomes(i + 1,
             UNION {{DrainStep(st, i, x[1], mode, x[2]) : x \in RecvResults \X TimeReads}
                    : st \in S})

\* slots idle for more than timeout seconds
IdleSlots ==
    {i \in Slots : /\ timeout > 0
                   /\ map[i].in_use = 1
                   /\ map[i].last_use # TIME_INVALID
                   /\ now - map[i].last_use > timeout}

\* the handles select(sock_fd_max + 1, ...) looks at
Watched == {fd \in read_fd_set : fd <= sock_fd_max}

(* ------------------------------------------------------------------ *)
(* The loop of start()                                                 *)
(* ------------------------------------------------------------------ *)
\* a loop test that does not look at the flag
CheckNoFlag ==
    /\ pc = "check"
    /\ pc' = "presel"
    /\ ev' = << >>
    /\ idle' = {}
    /\ refreshed' = {}
    /\ UNCHANGED <<progVars, mode, active_fd_set, read_fd_set, clean_up_trigged,
                   envVars, lastTv>>

\* line 192: while (!signal_term)
Check ==
    /\ pc = "check"
    /\ pc' = IF signal_term = 0 THEN "presel" ELSE "cleanup"
    /\ ev' = << >>
    /\ idle' = {}
    /\ refreshed' = {}
    /\ UNCHANGED <<progVars, mode, active_fd_set, read_fd_set, clean_up_trigged,
                   envVars, lastTv>>

\* lines 193-198: read_fd_set = active_fd_set, clean_up_trigged = 0, and the
\* call of select()
EnterSelect ==
    /\ pc = "presel"
    /\ read_fd_set' = active_fd_set
    /\ clean_up_trigged' = 0
    /\ pc' = "select"
    /\ ev' = << >>
    /\ UNCHANGED <<progVars, mode, active_fd_set, envVars, idle, refreshed, lastTv>>

\* a failed select() after which the reaper is run before the loop goes on
SelectFailReap ==
    /\ pc = "select"
    /\ intr \/ ~(Watched \subseteq openFds)
    /\ \E tv \in ReapReads :
        Apply(um_sockmap_clean([LoopState EXCEPT
                  !.evs = <<Ev("select", -1, -1, ZeroAddr, -1, 0)>>], tv, timeout),
              [idle |-> idle, refreshed |-> refreshed])
    /\ intr' = FALSE
    /\ read_fd_set' = {}
    /\ pc' = "check"
    /\ UNCHANGED <<timeout, signal_term, mode, now, lastTv>>

\* lines 198-202: select() returns -1 (EINTR, or EBADF for a closed handle)
SelectFail ==
    /\ pc = "select"
    /\ intr \/ ~(Watched \subseteq openFds)
    /\ intr' = FALSE
    /\ read_fd_set' = {}
    /\ pc' = "check"
    /\ ev' = <<Ev("select", -1, -1, ZeroAddr, -1, 0)>>
    /\ UNCHANGED <<progVars, mode, active_fd_set, clean_up_trigged, openFds,
                   conn, now, idle, refreshed, lastTv>>

\* lines 198-259: datagrams are queued on the handles of ready, select()
\* returns their number and leaves the bits from sock_fd_max + 1 on as they
\* were; then the step for the listening socket
Listen ==
    /\ pc = "select"
    /\ Watched \subseteq openFds
    /\ \E ready \in (SUBSET Watched) \ {{}} :
        \E s \in ListenOutcomes([LoopState EXCEPT
                     !.rd = ready \cup (read_fd_set \ Watched),
                     !.evs = <<Ev("select", -1, -1, ZeroAddr, 1, 0)>>]) :
            /\ Apply(s, [idle |-> IdleSlots, refreshed |-> {}])
            /\ read_fd_set' = s.rd
    /\ intr' = FALSE
    /\ pc' = "drain"
    /\ UNCHANGED <<timeout, signal_term, mode, now, lastTv>>

\* lines 261-276: the drain loop over the slots
Drain ==
    /\ pc = "drain"
    /\ \E s \in DrainOutcomes(0, {LoopState}) :
        Apply(s, [idle |-> idle, refreshed |-> refreshed])
    /\ read_fd_set' = {}
    /\ pc' = "maintain"
    /\ UNCHANGED <<timeout, signal_term, mode, now, intr, lastTv>>

\* lines 278-280: the reaper run at the end of the iteration
Maintain ==
    /\ pc = "maintain"
    /\ IF clean_up_trigged = 0
       THEN \E tv \in ReapReads :
                Apply(um_sockmap_clean(LoopState, tv, timeout),
                      [idle |-> idle, refreshed |-> refreshed])
       ELSE Apply(LoopState, [idle |-> idle, refreshed |-> refreshed])
    /\ pc' = "check"
    /\ UNCHANGED <<timeout, signal_term, mode, read_fd_set, now, intr, lastTv>>

\* lines 283-291: the clean-up after the loop
Cleanup ==
    /\ pc = "cleanup"
    /\ Apply(CloseAllFrom(0, [LoopState EXCEPT
                 !.evs = <<Ev("shutdown", -1, -1, ZeroAddr, 0, 0)>>]),
             [idle |-> idle, refreshed |-> refreshed])
    /\ pc' = "done"
    /\ UNCHANGED <<timeout, signal_term, mode, read_fd_set, now, intr, lastTv>>

(* ------------------------------------------------------------------ *)
(* The environment                                                     *)
(* ------------------------------------------------------------------ *)
\* lines 160-165: SIGHUP, SIGINT or SIGTERM is delivered; a select() that is
\* blocked fails with EINTR
sighanlder ==
    /\ pc # "done"
    /\ signal_term' = 1
    /\ intr' = (intr \/ pc = "select")
    /\ ev' = << >>
    /\ UNCHANGED <<map, sock_fd_max, timeout, localVars, openFds, conn, now,
                   idle, refreshed, lastTv>>

\* a second passes
Tick ==
    /\ pc # "done"
    /\ now < MaxTime
    /\ now' = now + 1
    /\ ev' = << >>
    /\ UNCHANGED <<progVars, localVars, openFds, conn, intr, idle, refreshed,
                   lastTv>>

\* the steps the loop takes without a datagram arriving
Internal ==
    \/ Check
    \/ EnterSelect
    \/ SelectFail
    \/ Drain
    \/ Maintain
    \/ Cleanup

Next ==
    \/ Internal
    \/ Listen
    \/ sighanlder
    \/ Tick

Spec == Init /\ [][Next]_vars

(* ------------------------------------------------------------------ *)
(* The session table on its own: the calls start() makes on it, in any  *)
(* order                                                                *)
(* ------------------------------------------------------------------ *)
\* lines 226-227 and 233-248: NEW_SOCK() and um_sockmap_ins for a new address
TableInsert ==
    /\ pc = "check"
    /\ \E a \in Clients, fd \in NewSocks(openFds) :
        /\ fd >= 0
        /\ Lookup(map, a) < 0
        /\ InsIndex(map) >= 0
        /\ LET m2 == um_sockmap_ins(map, fd, a)
           IN  Apply([LoopState EXCEPT
                          !.map = m2,
                          !.open = openFds \cup {fd},
                          !.conn = conn \cup {fd},
                          !.act = active_fd_set \cup {fd},
                          !.max = UPDATE_SOCK_FD_MAX_ADD(fd, sock_fd_max),
                          !.evs = <<Ev("ins", fd, InsIndex(map), a,
                                       m2[InsIndex(map)].last_use, 0)>>],
                     [idle |-> idle, refreshed |-> refreshed])
    /\ lastTv' = Busy
    /\ UNCHANGED <<timeout, signal_term, mode, read_fd_set, pc, now, intr>>

\* lines 257 and 268: UPDATE_LAST_USE on a session
TableTouch ==
    /\ pc = "check"
    /\ \E i \in Slots, tv \in TimeReads :
        /\ map[i].in_use = 1
        /\ Apply(Touch(LoopState, i, tv), [idle |-> idle, refreshed |-> refreshed])
    /\ lastTv' = Busy
    /\ UNCHANGED <<timeout, signal_term, mode, read_fd_set, pc, now, intr>>

\* lines 230 and 279: a call of um_sockmap_clean, and what it returns; the
\* record of the return keeps what the call before read
TableClean ==
    /\ pc = "check"
    /\ \E tv \in ReapReads :
        /\ LET s == um_sockmap_clean(LoopState, tv, timeout)
           IN  Apply([s EXCEPT !.evs = Append(s.evs,
                                   Ev("return", -1, -1, ZeroAddr, s.purged, lastTv))],
                     [idle |-> idle, refreshed |-> refreshed])
        /\ lastTv' = tv
    /\ UNCHANGED <<timeout, signal_term, mode, read_fd_set, pc, now, intr>>

NextTable ==
    \/ TableInsert
    \/ TableTouch
    \/ TableClean
    \/ Tick

SpecTable == Init /\ [][NextTable]_vars

(* ------------------------------------------------------------------ *)
(* Reading the record of a step                                         *)
(* ------------------------------------------------------------------ *)
Evs(s, op) == {s[k] : k \in {j \in 1 .. Len(s) : s[j].op = op}}

InUse(m) == {i \in Slots : m[i].in_use = 1}

(* ------------------------------------------------------------------ *)
(* Properties                                                           *)
(* ------------------------------------------------------------------ *)
\* C1: at every point of execution no two active sessions of the table share
\* a client address, and no two share an upstream socket.
C1_SessionsDistinct ==
    \A i \in Slots, j \in Slots :
        (i # j /\ map[i].in_use = 1 /\ map[j].in_use = 1)
            => /\ map[i].from # map[j].from
               /\ map[i].sock # map[j].sock

\* two sessions, the higher slot on a handle that an earlier session of the
\* lower slot held and the reaper closed
C1_Witness ==
    /\ map[0].in_use = 1
    /\ map[1].in_use = 1
    /\ map[1].sock < map[0].sock

\* C2: a datagram received from a client is sent only on the socket of the
\* session that holds that client's address, a datagram received on a
\* session's socket is sent only to that session's client address, and the
\* stored address and socket of a session do not change while it is active.
C2_Step ==
    /\ \A e \in Evs(ev', "send") :
        /\ e.slot \in Slots
        /\ map'[e.slot].in_use = 1
        /\ map'[e.slot].from = e.addr
        /\ map'[e.slot].sock = e.fd
        /\ \A j \in Slots \ {e.slot} : map'[j].in_use = 1 => map'[j].sock # e.fd
        /\ \E r \in Evs(ev', "recvfrom") : r.addr = e.addr
    /\ \A e \in Evs(ev', "sendto") :
        /\ e.slot \in Slots
        /\ e.fd = bind_sock
        /\ map'[e.slot].in_use = 1
        /\ e.addr = map'[e.slot].from
        /\ \E r \in Evs(ev', "recv") : r.slot = e.slot /\ r.fd = map'[e.slot].sock
        /\ \A j \in Slots \ {e.slot} : map'[j].in_use = 1 => map'[j].from # e.addr
    /\ \A i \in Slots :
        (/\ map[i].in_use = 1
         /\ map'[i].in_use = 1
         /\ \A c \in Evs(ev', "close") : c.slot # i)
            => /\ map'[i].from = map[i].from
               /\ map'[i].sock = map[i].sock

C2_SessionIsolation == [][C2_Step]_vars

\* a reply goes back to one client while the other client's session is active
C2_Witness ==
    /\ Cardinality(InUse(map)) = 2
    /\ Evs(ev, "sendto") # {}

\* C3: insertion takes the lowest free slot and starts the session with the
\* sentinel in last_use; with the reaper off the sessions fill slots 0, 1, ...
\* in order, and a new address is turned away exactly when all UM_MAX_CLIENT
\* slots are taken, which leaves the table as it was.
C3_Step ==
    /\ \A e \in Evs(ev', "ins") :
        /\ e.slot \in Slots
        /\ map'[e.slot].in_use = 1
        /\ map'[e.slot].from = e.addr
        /\ map'[e.slot].sock = e.fd
        /\ e.data = TIME_INVALID
        /\ \A j \in Slots : j < e.slot => map'[j].in_use = 1
        /\ timeout = 0 => /\ e.slot = Cardinality(InUse(map))
                          /\ map[e.slot].in_use = 0
                          /\ \A j \in InUse(map) : map'[j] = map[j]
    /\ \A e \in Evs(ev', "drop") :
        /\ Cardinality(InUse(map)) = UM_MAX_CLIENT
        /\ map' = map
    /\ (timeout = 0 /\ pc' # "done") => InUse(map') = 0 .. (Cardinality(InUse(map')) - 1)
    /\ (timeout = 0 /\ InUse(map) # Slots)
        => \A r \in Evs(ev', "recvfrom") :
               (r.data >= 0 /\ r.slot < 0 /\ \A k \in Evs(ev', "socket") : k.fd >= 0)
                   => Evs(ev', "ins") # {}

C3_CapacityInsert == [][C3_Step]_vars

\* with the reaper off, a datagram from one more address finds the table full
C3_Witness ==
    /\ timeout = 0
    /\ Evs(ev, "drop") # {}
    /\ Cardinality(InUse(map)) = UM_MAX_CLIENT

\* C4: when the insertion for a new client address fails, the step leaves the
\* table, the watched handles and sock_fd_max as they were, sends nothing,
\* creates no session for the address, and the loop goes on.
C4_Step ==
    \A e \in Evs(ev', "drop") :
        /\ map' = map
        /\ active_fd_set' = active_fd_set
        /\ sock_fd_max' = sock_fd_max
        /\ conn' = conn
        /\ Evs(ev', "send") = {}
        /\ Evs(ev', "touch") = {}
        /\ Lookup(map', e.addr) < 0
        /\ pc' = "drain"

C4_DropWhenFull == [][C4_Step]_vars

\* with the reaper on, a datagram of a new address was dropped because every
\* slot holds a session used within the current second
C4_Witness ==
    /\ Evs(ev, "drop") # {}
    /\ timeout > 0
    /\ now > 0
    /\ \A i \in Slots : map[i].in_use = 1 /\ map[i].last_use = now

\* C5: with timeout > 0, a reaper run that reads the clock value tv purges
\* every active session with tv - last_use >= timeout and none with a smaller
\* difference; a socket is closed only for a session that is active and whose
\* socket is open, the session is inactive afterwards, and when the process
\* has shut down every session is purged and every session socket closed.
C5_Step ==
    /\ \A r \in Evs(ev', "reap") :
        timeout > 0 =>
            \A i \in Slots :
                (map[i].in_use = 1 /\ map[i].last_use # TIME_INVALID)
                    => ((r.data - map[i].last_use >= timeout)
                            <=> (\E c \in Evs(ev', "close") : c.slot = i))
    /\ \A k \in 1 .. Len(ev') :
        ev'[k].op = "close" =>
            /\ ev'[k].slot \in Slots
            /\ map[ev'[k].slot].in_use = 1
            /\ map[ev'[k].slot].sock = ev'[k].fd
            /\ ev'[k].data = 1
            /\ ev'[k].fd \in conn
            /\ ev'[k].fd \notin openFds'
            /\ Evs(ev', "shutdown") = {} => ev'[k].fd \notin active_fd_set'
            /\ \/ map'[ev'[k].slot].in_use = 0
               \/ \E e \in Evs(ev', "ins") : e.slot = ev'[k].slot
            /\ \A j \in 1 .. Len(ev') :
                (ev'[j].op = "close" /\ ev'[j].slot = ev'[k].slot) => j = k
    /\ conn' = {map'[i].sock : i \in InUse(map')}
    /\ conn' \subseteq openFds'
    /\ Cardinality(conn') = Cardinality(InUse(map'))
    /\ pc' = "done" => (InUse(map') = {} /\ conn' = {})

C5_IdleGC == [][C5_Step]_vars

\* a reaper run purged a session idle for timeout seconds or more and kept a
\* session used more recently
C5_Witness ==
    /\ timeout > 0
    /\ \E r \in Evs(ev, "reap"), c \in Evs(ev, "close") :
        /\ c.orig # TIME_INVALID
        /\ r.data - c.orig >= timeout
    /\ \E i \in InUse(map) : map[i].last_use # TIME_INVALID
    /\ pc = "check"

\* C6: with timeout 0 the reaper purges nothing whatever last_use holds: a
\* session that is active stays active, with its socket and its address,
\* until the clean-up at shutdown.
C6_Step ==
    timeout = 0 =>
        /\ Evs(ev', "close") # {} => Evs(ev', "shutdown") # {}
        /\ pc' # "done" =>
            \A i \in InUse(map) : /\ map'[i].in_use = 1
                                  /\ map'[i].sock = map[i].sock
                                  /\ map'[i].from = map[i].from
                                  /\ map'[i].sock \in openFds'

C6_ReaperOff == [][C6_Step]_vars

\* the reaper has run with timeout 0 over a session that holds the sentinel
\* and a session last used MaxTime seconds ago
C6_Witness ==
    /\ timeout = 0
    /\ Evs(ev, "reap") # {}
    /\ \E i \in InUse(map) : map[i].last_use = TIME_INVALID
    /\ \E i \in InUse(map) : map[i].last_use # TIME_INVALID
                               /\ now - map[i].last_use >= MaxTime

\* C7: a call of the reaper that follows another call with no insertion and
\* no touch in between, and whose clock reading is not later than the first
\* call's (a failed reading, (time_t) -1, being earlier than every time),
\* purges nothing and returns 0.
C7_Step ==
    (/\ ev' # << >>
     /\ ev'[1].op = "reap"
     /\ lastTv # Busy
     /\ ev'[1].data <= lastTv)
        => /\ Evs(ev', "close") = {}
           /\ \A r \in Evs(ev', "return") : r.data = 0
           /\ map' = map
           /\ active_fd_set' = active_fd_set

C7_ReapTwice == [][C7_Step]_vars

\* the second of two calls, with the reaper on and a session in the table
C7_Witness ==
    /\ timeout > 0
    /\ InUse(map) # {}
    /\ \E r \in Evs(ev, "return") : r.orig # Busy /\ r.orig = lastTv /\ r.data = 0

\* C7 as the spec states it: the second call purges nothing whatever the
\* clock reads
C7_Spec_Step ==
    (/\ ev' # << >>
     /\ ev'[1].op = "reap"
     /\ lastTv # Busy)
        => /\ Evs(ev', "close") = {}
           /\ \A r \in Evs(ev', "return") : r.data = 0

C7_AsStated == [][C7_Spec_Step]_vars

\* C8: with timeout > 0, when the reaper run of an iteration reads a real
\* time, every session that had been idle for more than timeout seconds when
\* select() returned, and that the iteration has not refreshed, is purged by
\* that run; a session created afterwards is on a socket NEW_SOCK() made in
\* that step and starts from the sentinel, so that its last_use is the
\* sentinel or the time of the step.
C8_Step ==
    /\ \A r \in Evs(ev', "reap") :
        (r.data # TIME_INVALID /\ r.data # NoRead) => idle' = {}
    /\ \A e \in Evs(ev', "ins") :
        /\ e.data = TIME_INVALID
        /\ e.fd \notin openFds
        /\ \E k \in Evs(ev', "socket") : k.fd = e.fd
        /\ \A c \in Evs(ev', "close") : c.fd # e.fd
        /\ map'[e.slot].sock = e.fd
        /\ map'[e.slot].last_use \in {TIME_INVALID, now}

C9_Step ==
    /\ \A r \in Evs(ev', "recvfrom") :
        (/\ r.data >= 0
         /\ r.slot < 0
         /\ InUse(map) # Slots
         /\ \A k \in Evs(ev', "socket") : k.fd >= 0)
            => \E e \in Evs(ev', "ins") :
                /\ e.addr = r.addr
                /\ map'[e.slot].in_use = 1
                /\ map'[e.slot].from = r.addr
                /\ map'[e.slot].sock = e.fd
                /\ e.fd \in conn'
                /\ e.fd \in active_fd_set'
                /\ e.fd <= sock_fd_max'
                /\ \E x \in Evs(ev', "send") :
                    /\ x.fd = e.fd
                    /\ x.orig = r.data
                    /\ x.data = transform(mode, r.data)
    /\ \A x \in Evs(ev', "sendto") :
        /\ x.fd = bind_sock
        /\ x.slot \in Slots
        /\ x.addr = map'[x.slot].from
        /\ x.data = transform(mode, x.orig)
        /\ \E r \in Evs(ev', "recv") : r.slot = x.slot /\ r.data = x.orig
    /\ \A x \in Evs(ev', "send") \cup Evs(ev', "sendto") :
        transform(Complement(mode), x.data) = x.orig

C9_Spec_Step ==
    \A r \in Evs(ev', "recvfrom") :
        (r.data >= 0 /\ r.slot < 0 /\ InUse(map) # Slots)
            => \E e \in Evs(ev', "ins") : e.addr = r.addr

C10_ShutdownNotBlocked ==
    (signal_term = 1 /\ pc # "done") => ENABLED Internal

\* C11: the flag decides only the step at the top of the iteration: set, the
\* loop goes to the clean-up, and only from there; every other step of an
\* iteration leads to the next one whatever the flag holds, and can be taken
\* with the flag set; when the loop has exited no slot is in use and every
\* socket a session owned is closed.
C11_Step ==
    /\ pc' # pc =>
        /\ pc = "check" => pc' = (IF signal_term = 1 THEN "cleanup" ELSE "presel")
        /\ pc = "presel" => pc' = "select"
        /\ pc = "select" => pc' \in {"drain", "check"}
        /\ pc = "drain" => pc' = "maintain"
        /\ pc = "maintain" => pc' = "check"
        /\ pc = "cleanup" => pc' = "done"
    /\ pc' = "cleanup" => (pc = "cleanup" \/ (pc = "check" /\ signal_term = 1))
    /\ pc' = "done" =>
        /\ InUse(map') = {}
        /\ \A i \in InUse(map) : map[i].sock \notin openFds'
        /\ conn' = {}

C11_Runs ==
    /\ (pc = "drain" /\ signal_term = 1) => ENABLED Drain
    /\ (pc = "maintain" /\ signal_term = 1) => ENABLED Maintain

C11_FlagAtTop == []C11_Runs /\ [][C11_Step]_vars

\* the flag was set after the test at the top, and the iteration went on
\* through the drain loop and the reaper
C11_Witness ==
    /\ pc = "check"
    /\ signal_term = 1
    /\ Evs(ev, "reap") # {}
    /\ InUse(map) # {}

\* the positions of the record s that hold a call of kind op
At(s, op) == {k \in 1 .. Len(s) : s[k].op = op}

\* C12: an iteration receives at most one datagram from the listening socket,
\* in the step that follows select(), and everything done for it (lookup,
\* reaper, insertion, send, touch) is in that step, before any session socket
\* is read; the drain loop then reads one datagram from each session socket
\* that is ready, in increasing slot order, and does nothing else.
C12_Step ==
    /\ At(ev', "recvfrom") # {} =>
        /\ pc = "select" /\ pc' = "drain"
        /\ Cardinality(At(ev', "recvfrom")) = 1
        /\ At(ev', "recv") = {} /\ At(ev', "sendto") = {}
    /\ \A op \in {"socket", "reap", "ins", "drop", "send"} :
        \A k \in At(ev', op) :
            pc = "select" => \E j \in At(ev', "recvfrom") : j < k
    /\ (pc = "select" /\ pc' = "drain") =>
        \A k \in At(ev', "touch") \cup At(ev', "close") :
            \E j \in At(ev', "recvfrom") : j < k
    /\ (At(ev', "recv") # {} \/ At(ev', "sendto") # {}) =>
        /\ pc = "drain" /\ pc' = "maintain"
    /\ (pc = "drain" /\ pc' = "maintain") =>
        /\ \A k \in 1 .. Len(ev') : ev'[k].op \in {"recv", "touch", "sendto"}
        /\ \A i \in Slots :
            Cardinality({k \in At(ev', "recv") : ev'[k].slot = i})
                = (IF map[i].in_use = 1 /\ map[i].sock \in read_fd_set THEN 1 ELSE 0)
        /\ \A j \in At(ev', "recv"), k \in At(ev', "recv") :
            j < k => ev'[j].slot < ev'[k].slot
        /\ \A k \in At(ev', "touch") \cup At(ev', "sendto") :
            \E j \in At(ev', "recv") : j < k /\ ev'[j].slot = ev'[k].slot

C12_DispatchOrder == [][C12_Step]_vars

\* the drain loop has read two ready session sockets, slot 0 before slot 1
C12_Witness ==
    /\ pc = "maintain"
    /\ \E j \in At(ev, "recv"), k \in At(ev, "recv") :
        j < k /\ ev[j].slot = 0 /\ ev[k].slot = 1

\* C13: the step for the listening socket calls the reaper at most once, and
\* exactly when it leaves clean_up_trigged set (a new client address for which
\* NEW_SOCK() gave a socket); the drain loop calls no reaper and leaves the
\* flag alone; the step at the end of the iteration calls the reaper once when
\* the flag is clear and not at all when it is set.  So an iteration that
\* dispatches calls the reaper once, also when NEW_SOCK() fails.
C13_Step ==
    /\ (pc = "select" /\ pc' = "drain") =>
        /\ Cardinality(At(ev', "reap")) = clean_up_trigged'
        /\ clean_up_trigged' \in {0, 1}
        /\ \A k \in Evs(ev', "socket") : k.fd < 0 => clean_up_trigged' = 0
        /\ clean_up_trigged' = 1 <=> \E k \in Evs(ev', "socket") : k.fd >= 0
    /\ (pc = "drain" /\ pc' = "maintain") =>
        /\ At(ev', "reap") = {}
        /\ At(ev', "close") = {}
        /\ clean_up_trigged' = clean_up_trigged
    /\ (pc = "maintain" /\ pc' = "check") =>
        /\ Cardinality(At(ev', "reap")) = 1 - clean_up_trigged
        /\ clean_up_trigged = 1 => (At(ev', "close") = {} /\ map' = map)
    /\ At(ev', "reap") # {} => pc \in {"select", "maintain"}

C13_ReapOncePerIteration == [][C13_Step]_vars

\* NEW_SOCK() failed for a new client address while a session is in the
\* table: the reaper has not run yet in this iteration and the flag is clear
C13_Witness ==
    /\ pc = "drain"
    /\ clean_up_trigged = 0
    /\ \E k \in Evs(ev, "socket") : k.fd < 0
    /\ At(ev, "reap") = {}
    /\ InUse(map) # {}

\* C14: when select() returns an error (EINTR included) the iteration goes
\* back to the test at the top: nothing is received or sent, the reaper is
\* not run, and the table, active_fd_set and sock_fd_max are as they were.
C14_Step ==
    \A e \in Evs(ev', "select") :
        e.data <= 0 =>
            /\ pc = "select" /\ pc' = "check"
            /\ Len(ev') = 1
            /\ map' = map
            /\ active_fd_set' = active_fd_set
            /\ sock_fd_max' = sock_fd_max
            /\ openFds' = openFds
            /\ clean_up_trigged' = clean_up_trigged

C14_SelectFails == [][C14_Step]_vars

\* select() was interrupted while a session idle for timeout seconds or more
\* is in the table
C14_Witness ==
    /\ pc = "check"
    /\ \E e \in Evs(ev, "select") : e.data <= 0
    /\ timeout > 0
    /\ \E i \in InUse(map) :
        map[i].last_use # TIME_INVALID /\ now - map[i].last_use >= timeout

\* C15: at every entry to select() the handles handed to it are the listening
\* socket and the sockets of the sessions in use, no other, and sock_fd_max is
\* the largest of them.
C15_WatchedExact ==
    pc \in {"presel", "select"} =>
        /\ active_fd_set = {bind_sock} \cup {map[i].sock : i \in InUse(map)}
        /\ pc = "select" => read_fd_set = active_fd_set
        /\ sock_fd_max \in active_fd_set
        /\ \A fd \in active_fd_set : fd <= sock_fd_max

\* at select() with a session in use, after the session that held the largest
\* handle was purged: a freed slot still shows a handle above sock_fd_max
C15_Witness ==
    /\ pc = "select"
    /\ InUse(map) # {}
    /\ \E i \in Slots : map[i].in_use = 0 /\ map[i].sock > sock_fd_max

\* C16: a failed clock never makes a session stay longer than a working
\* clock would: a reaper run with timeout > 0 purges every session in use
\* whose last_use is timeout seconds or more before the time of the run,
\* whatever time() returns to it; and a touch for which time() fails leaves
\* last_use as it was, with the datagram forwarded all the same.
C16_Step ==
    /\ \A r \in Evs(ev', "reap") :
        timeout > 0 =>
            \A i \in InUse(map) :
                (map[i].last_use # TIME_INVALID /\ now - map[i].last_use >= timeout)
                    => \E c \in Evs(ev', "close") : c.slot = i
    /\ \A k \in At(ev', "touch") :
        ev'[k].data = TIME_INVALID =>
            /\ map'[ev'[k].slot].last_use = ev'[k].orig
            /\ \E j \in At(ev', "send") \cup At(ev', "sendto") :
                ev'[j].slot = ev'[k].slot

C16_ClockFailsEarly == [][C16_Step]_vars

\* C17: with timeout > 0 a reaper run purges every session in use whose
\* last_use is the sentinel, whatever the clock reads and however long the
\* timeout is.
C17_Step ==
    \A r \in Evs(ev', "reap") :
        timeout > 0 =>
            \A i \in InUse(map) :
                map[i].last_use = TIME_INVALID
                    => \E c \in Evs(ev', "close") :
                           /\ c.slot = i
                           /\ c.fd = map[i].sock
                           /\ c.orig = TIME_INVALID
                           /\ c.fd \notin active_fd_set'

C17_SentinelPurged == [][C17_Step]_vars

\* a session still on the sentinel was purged by a reaper run in the second
\* it was created in
C17_Witness ==
    /\ timeout > 0
    /\ now = 0
    /\ \E c \in Evs(ev, "close") : c.orig = TIME_INVALID
    /\ Evs(ev, "reap") # {}

\* C18: at every entry to select() every socket the loop has made and not
\* closed belongs to a session in use, so that no more than UM_MAX_CLIENT of
\* them are open.
C18_NoLeak ==
    pc = "select" =>
        /\ openFds \ {bind_sock} = {map[i].sock : i \in InUse(map)}
        /\ Cardinality(openFds \ {bind_sock}) <= UM_MAX_CLIENT

NoSentinel(m) == \A i \in InUse(m) : m[i].last_use # TIME_INVALID

\* C19: the step that inserts a session touches it afterwards, with no reaper
\* call after the insertion, and leaves clean_up_trigged set, so that no
\* reaper runs before the next test at the top; when time() works for the
\* touches of a step, the step leaves no session on the sentinel if it found
\* none; and nothing is purged in the rest of an iteration that made a
\* session.
C19_Step ==
    /\ \A k \in At(ev', "ins") :
        /\ \E t \in At(ev', "touch") :
            /\ k < t
            /\ ev'[t].slot = ev'[k].slot
            /\ ev'[t].data # TIME_INVALID
                => map'[ev'[k].slot].last_use = ev'[t].data
        /\ \A r \in At(ev', "reap") \cup At(ev', "close") : r < k
        /\ clean_up_trigged' = 1
        /\ map'[ev'[k].slot].in_use = 1
    /\ ((\A t \in At(ev', "touch") : ev'[t].data # TIME_INVALID) /\ NoSentinel(map))
        => NoSentinel(map')
    /\ (pc \in {"drain", "maintain"} /\ clean_up_trigged = 1) =>
        /\ At(ev', "close") = {}
        /\ InUse(map') = InUse(map)

C19_NewSessionTouched == [][C19_Step]_vars

\* a session was made and touched at once with the current time, next to a
\* session made earlier
C19_Witness ==
    /\ pc = "drain"
    /\ now > 0
    /\ NoSentinel(map)
    /\ Cardinality(InUse(map)) = 2
    /\ \E e \in Evs(ev, "ins") : map[e.slot].last_use = now

\* C20: a socket is read, written or closed only while it is open and for
\* the slot that owns it; a handle the reaper closed in the step for the
\* listening socket belongs to no session afterwards, the handle of a session
\* made in that step is not in read_fd_set, and a session whose handle is in
\* read_fd_set when the drain loop starts is a session that was in use, with
\* that handle, when select() returned.
C20_Step ==
    /\ \A e \in Evs(ev', "recv") :
        /\ e.slot \in Slots
        /\ map[e.slot].in_use = 1
        /\ map[e.slot].sock = e.fd
        /\ e.fd \in openFds
        /\ e.fd \in read_fd_set
        /\ pc = "drain"
    /\ \A e \in Evs(ev', "send") :
        /\ e.slot \in Slots
        /\ map'[e.slot].in_use = 1
        /\ map'[e.slot].sock = e.fd
        /\ e.fd \in openFds'
    /\ \A e \in Evs(ev', "sendto") \cup Evs(ev', "recvfrom") :
        e.fd = bind_sock /\ bind_sock \in openFds
    /\ \A c \in Evs(ev', "close") :
        /\ c.slot \in Slots
        /\ c.data = 1
        /\ c.fd \in openFds
        /\ map[c.slot].in_use = 1
        /\ map[c.slot].sock = c.fd
        /\ \A i \in InUse(map') : map'[i].sock # c.fd
    /\ \A e \in Evs(ev', "ins") :
        /\ e.fd \notin read_fd_set'
        /\ e.fd \notin openFds
    /\ pc' = "drain" =>
        \A i \in InUse(map') :
            map'[i].sock \in read_fd_set' =>
                /\ map[i].in_use = 1
                /\ map[i].sock = map'[i].sock
                /\ map[i].from = map'[i].from
                /\ map'[i].sock \in openFds'
                /\ \A c \in Evs(ev', "close") : c.slot # i

C20_NoStaleHandle == [][C20_Step]_vars

\* the reaper purged a session whose socket select() had reported ready, and
\* the new session took its slot
C20_Witness ==
    /\ pc = "drain"
    /\ \E c \in Evs(ev, "close"), e \in Evs(ev, "ins") :
        /\ c.fd \in read_fd_set
        /\ e.slot = c.slot
        /\ map[e.slot].sock # c.fd

====
